---- MODULE Spec2Model ----
(***************************************************************************)
(* A model of card.py: the Card value object (name, suit, derived          *)
(* attributes, face-up/face-down state), its comparisons and rendering,    *)
(* and the SchopskopfCard subclass that overrides equality.                *)
(*                                                                         *)
(* Python strings are sequences of one-character strings, so that          *)
(* str.lower, str.upper, str.capitalize and f-string concatenation are     *)
(* computed character by character.  A Python object is a record whose     *)
(* "type" field is its class; the result of a call is either a returned    *)
(* value or a raised exception.                                            *)
(***************************************************************************)
EXTENDS Integers, Sequences, FiniteSets, TLC

VARIABLES cards, flips, useUnicode, debugMode, result

vars == <<cards, flips, useUnicode, debugMode, result>>

\* Largest number of flip() calls counted on one card.
MaxFlips == 3

(***************************************************************************)
(* Python strings                                                          *)
(***************************************************************************)
LowerLetters ==
    << "a","b","c","d","e","f","g","h","i","j","k","l","m",
       "n","o","p","q","r","s","t","u","v","w","x","y","z" >>

UpperLetters ==
    << "A","B","C","D","E","F","G","H","I","J","K","L","M",
       "N","O","P","Q","R","S","T","U","V","W","X","Y","Z" >>

LetterIx == 1..Len(LowerLetters)

\* str.lower() on one character
lowerCh(c) ==
    IF \E i \in LetterIx : UpperLetters[i] = c
    THEN LowerLetters[CHOOSE i \in LetterIx : UpperLetters[i] = c]
    ELSE c

\* str.upper() on one character
upperCh(c) ==
    IF \E i \in LetterIx : LowerLetters[i] = c
    THEN UpperLetters[CHOOSE i \in LetterIx : LowerLetters[i] = c]
    ELSE c

\* s.lower()
lower(s) ==
    IF Len(s) = 0 THEN << >> ELSE [i \in 1..Len(s) |-> lowerCh(s[i])]

\* s.upper()
upper(s) ==
    IF Len(s) = 0 THEN << >> ELSE [i \in 1..Len(s) |-> upperCh(s[i])]

\* s.capitalize(): first character upper case, the rest lower case
capitalize(s) ==
    IF Len(s) = 0 THEN << >>
    ELSE [i \in 1..Len(s) |-> IF i = 1 THEN upperCh(s[i]) ELSE lowerCh(s[i])]

\* x in lst, for a Python list
InList(x, lst) == \E i \in 1..Len(lst) : lst[i] = x

\* lst.index(x): the first position holding x
ListIndex(lst, x) ==
    CHOOSE i \in 1..Len(lst) :
        /\ lst[i] = x
        /\ \A j \in 1..(i - 1) : lst[j] # x

\* dict(zip(keys, values)): a later pair overwrites an earlier one
DictZip(keys, values) ==
    [k \in {keys[i] : i \in 1..Len(keys)} |->
        values[CHOOSE i \in 1..Len(keys) :
                  /\ keys[i] = k
                  /\ \A j \in (i + 1)..Len(keys) : keys[j] # k]]

(***************************************************************************)
(* Class variables of Card                                                 *)
(***************************************************************************)
suits ==
    << <<"c","l","u","b","s">>,
       <<"s","p","a","d","e","s">>,
       <<"h","e","a","r","t","s">>,
       <<"d","i","a","m","o","n","d","s">> >>

unicode == << <<"u2663">>, <<"u2660">>, <<"u2661">>, <<"u2662">> >>

unicodeDict == DictZip(suits, unicode)

names ==
    << <<"a","c","e">>, <<"2">>, <<"3">>, <<"4">>, <<"5">>, <<"6">>, <<"7">>,
       <<"8">>, <<"9">>, <<"1","0">>,
       <<"j","a","c","k">>, <<"q","u","e","e","n">>, <<"k","i","n","g">> >>

shortNames ==
    << <<"A">>, <<"2">>, <<"3">>, <<"4">>, <<"5">>, <<"6">>, <<"7">>,
       <<"8">>, <<"9">>, <<"1","0">>, <<"J">>, <<"Q">>, <<"K">> >>

shortNameDict == DictZip(names, shortNames)

hardValues == << 1, 2, 3, 4, 5, 6, 7, 8, 9, 10, 10, 10, 10 >>

softValues == << 11, 2, 3, 4, 5, 6, 7, 8, 9, 10, 10, 10, 10 >>

hardValueDict == DictZip(names, hardValues)

softValueDict == DictZip(names, softValues)

ranks == << 1, 2, 3, 4, 5, 6, 7, 8, 9, 10, 11, 12, 13 >>

rankDict == DictZip(names, ranks)

facecardNames == << <<"j","a","c","k">>, <<"q","u","e","e","n">>, <<"k","i","n","g">> >>

aceName == <<"a","c","e">>

faceDown == <<"[","f","a","c","e"," ","d","o","w","n","]">>

ofWord == <<" ","o","f"," ">>

(***************************************************************************)
(* Values and call outcomes                                                *)
(***************************************************************************)
None == [type |-> "NoneType"]

Return(v) == [kind |-> "return", val |-> v]

Raise(e, m) == [kind |-> "raise", exc |-> e, msg |-> m]

CardTypes == {"Card", "SchopskopfCard"}

IsCardObj(v) == v.type \in CardTypes

(***************************************************************************)
(* Card                                                                    *)
(***************************************************************************)
\* Card.__init__ with the short forms matched as written, not upper-cased.
Card_init_shortAsWritten(cls, name, suit) ==
    LET isName  == InList(lower(name), names)
        isShort == InList(name, shortNames)
        nm      == IF isName THEN lower(name)
                   ELSE lower(names[ListIndex(shortNames, name)])
    IN  IF ~isName /\ ~isShort
        THEN [out |-> Raise("TypeError", "is not a valid card name"), obj |-> None]
        ELSE IF ~InList(lower(suit), suits)
        THEN [out |-> Raise("TypeError", "is not a valid card suit"), obj |-> None]
        ELSE [out |-> Return(None),
              obj |-> [type       |-> cls,
                       name       |-> nm,
                       shortName  |-> shortNameDict[nm],
                       suit       |-> lower(suit),
                       isFacecard |-> InList(nm, facecardNames),
                       isAce      |-> (nm = aceName),
                       isShowing  |-> FALSE,
                       rank       |-> rankDict[nm],
                       hardValue  |-> hardValueDict[nm],
                       softValue  |-> softValueDict[nm]]]

\* Card.__init__(self, name, suit), for an object of class cls: the outcome
\* and, when it returns, the constructed object.
Card_init(cls, name, suit) ==
    LET isName  == InList(lower(name), names)
        isShort == InList(upper(name), shortNames)
        nm      == IF isName THEN lower(name)
                   ELSE lower(names[ListIndex(shortNames, upper(name))])
    IN  IF ~isName /\ ~isShort
        THEN [out |-> Raise("TypeError", "is not a valid card name"), obj |-> None]
        ELSE IF ~InList(lower(suit), suits)
        THEN [out |-> Raise("TypeError", "is not a valid card suit"), obj |-> None]
        ELSE [out |-> Return(None),
              obj |-> [type       |-> cls,
                       name       |-> nm,
                       shortName  |-> shortNameDict[nm],
                       suit       |-> lower(suit),
                       isFacecard |-> InList(nm, facecardNames),
                       isAce      |-> (nm = aceName),
                       isShowing  |-> FALSE,
                       rank       |-> rankDict[nm],
                       hardValue  |-> hardValueDict[nm],
                       softValue  |-> softValueDict[nm]]]

\* Card.__str__ with the placeholder chosen on visibility alone.
Card_str_noDebug(self) ==
    LET string == IF useUnicode
                  THEN self.shortName \o unicodeDict[self.suit]
                  ELSE capitalize(self.name) \o ofWord \o capitalize(self.suit)
    IN  IF ~self.isShowing
        THEN Return(faceDown)
        ELSE Return(string)

\* Card.__str__
Card_str(self) ==
    LET string == IF useUnicode
                  THEN self.shortName \o unicodeDict[self.suit]
                  ELSE capitalize(self.name) \o ofWord \o capitalize(self.suit)
    IN  IF ~self.isShowing /\ ~debugMode
        THEN Return(faceDown)
        ELSE Return(string)

\* Card.flip turning the card face up instead of over.
Card_flip_faceUp(self) == [self EXCEPT !.isShowing = TRUE]

\* Card.flip: the object after the call (the call returns self)
Card_flip(self) == [self EXCEPT !.isShowing = ~self.isShowing]

\* Card.isShowing (property, not gated)
Card_isShowing(self) == self.isShowing

\* Card.isFacecard (property)
Card_isFacecard(self) ==
    IF ~Card_isShowing(self)
    THEN Raise("RuleError", "you can not use is_face_card()")
    ELSE Return(self.isFacecard)

\* Card.isAce (property)
Card_isAce(self) ==
    IF ~Card_isShowing(self)
    THEN Raise("RuleError", "you can not use is_ace()")
    ELSE Return(self.isAce)

\* Card.hardValue (property)
Card_hardValue(self) ==
    IF ~Card_isShowing(self)
    THEN Raise("RuleError", "you can not use hard_value()")
    ELSE Return(self.hardValue)

\* Card.softValue (property)
Card_softValue(self) ==
    IF ~Card_isShowing(self)
    THEN Raise("RuleError", "you can not use hard_value()")
    ELSE Return(self.softValue)

\* Card.suit (getter) with the gate lifted in debug mode.
Card_suit_debugLifts(self) ==
    IF ~self.isShowing /\ ~debugMode
    THEN Raise("RuleError", "you can not use suit()")
    ELSE Return(self.suit)

\* Card.suit (property getter)
Card_suit(self) ==
    IF ~Card_isShowing(self)
    THEN Raise("RuleError", "you can not use suit()")
    ELSE Return(self.suit)

\* Card.suit (setter) matching the suit in any case, as the constructor does,
\* and storing it as written.
Card_suit_setter_anyCase(self, newSuit) ==
    IF InList(lower(newSuit), suits)
    THEN [out |-> Return(None), obj |-> [self EXCEPT !.suit = newSuit]]
    ELSE [out |-> Raise("ValueError", "must be in Card.suits"), obj |-> self]

\* Card.suit (property setter): the outcome and the object after the call
Card_suit_setter(self, newSuit) ==
    IF InList(newSuit, suits)
    THEN [out |-> Return(None), obj |-> [self EXCEPT !.suit = newSuit]]
    ELSE [out |-> Raise("ValueError", "must be in Card.suits"), obj |-> self]

\* Card.name (property)
Card_name(self) ==
    IF ~Card_isShowing(self)
    THEN Raise("RuleError", "you can not use name()")
    ELSE Return(self.name)

\* Card.rank (property)
Card_rank(self) ==
    IF ~Card_isShowing(self)
    THEN Raise("RuleError", "you can not use rank()")
    ELSE Return(self.rank)

\* Card.sameSuit(self, other)
Card_sameSuit(self, other) ==
    IF other.type # self.type
    THEN Raise("TypeError", "Can't compare to a Card")
    ELSE IF ~Card_isShowing(self) /\ ~Card_isShowing(other)
    THEN Raise("RuleError", "you can not use sameSuit()")
    ELSE LET a == Card_suit(self)
             b == Card_suit(other)
         IN  IF a.kind = "raise" THEN a
             ELSE IF b.kind = "raise" THEN b
             ELSE Return(a.val = b.val)

\* Card.sameRank with the visibility check made before the type check.
Card_sameRank_gateFirst(self, other) ==
    IF ~self.isShowing /\ ~IsCardObj(other)
    THEN Raise("AttributeError", "isShowing")
    ELSE IF ~self.isShowing /\ ~other.isShowing
    THEN Raise("RuleError", "you can not use sameRank()")
    ELSE IF other.type # self.type
    THEN Raise("TypeError", "Can't compare to a Card")
    ELSE LET a == Card_rank(self)
             b == Card_rank(other)
         IN  IF a.kind = "raise" THEN a
             ELSE IF b.kind = "raise" THEN b
             ELSE Return(a.val = b.val)

\* Card.sameRank(self, other)
Card_sameRank(self, other) ==
    IF other.type # self.type
    THEN Raise("TypeError", "Can't compare to a Card")
    ELSE IF ~Card_isShowing(self) /\ ~Card_isShowing(other)
    THEN Raise("RuleError", "you can not use sameRank()")
    ELSE LET a == Card_rank(self)
             b == Card_rank(other)
         IN  IF a.kind = "raise" THEN a
             ELSE IF b.kind = "raise" THEN b
             ELSE Return(a.val = b.val)

\* Card.__eq__ comparing the ranks only.
Card_eq_rankOnly(self, other) == Card_sameRank(self, other)

\* Card.__eq__: self.sameRank(other) and self.sameSuit(other)
Card_eq(self, other) ==
    LET r == Card_sameRank(self, other)
    IN  IF r.kind = "raise" THEN r
        ELSE IF ~r.val THEN r
        ELSE Card_sameSuit(self, other)

\* Card.__lt__ reading the ranks through the gated property.
Card_lt_gated(self, other) ==
    IF ~IsCardObj(other)
    THEN Raise("AttributeError", "rank")
    ELSE LET a == Card_rank(self)
             b == Card_rank(other)
         IN  IF a.kind = "raise" THEN a
             ELSE IF b.kind = "raise" THEN b
             ELSE Return(a.val < b.val)

\* Card.__lt__: reads the private rank field of both operands
Card_lt(self, other) ==
    IF ~IsCardObj(other)
    THEN Raise("AttributeError", "_Card__rank")
    ELSE Return(self.rank < other.rank)

(***************************************************************************)
(* SchopskopfCard                                                          *)
(***************************************************************************)
\* The attribute other.attr as SchopskopfCard.__eq__ reads it: the property
\* of a card, no such attribute on anything else.
Attr_suit(v) ==
    IF IsCardObj(v) THEN Card_suit(v) ELSE Raise("AttributeError", "suit")

Attr_name(v) ==
    IF IsCardObj(v) THEN Card_name(v) ELSE Raise("AttributeError", "name")

\* SchopskopfCard.__eq__ reading the private fields, not the properties.
SchopskopfCard_eq_raw(self, other) ==
    IF ~IsCardObj(other)
    THEN Raise("AttributeError", "_Card__suit")
    ELSE Return(self.suit = other.suit /\ self.name = other.name)

\* SchopskopfCard.__eq__: self.suit == other.suit and self.name == other.name
SchopskopfCard_eq(self, other) ==
    LET s1 == Card_suit(self)
        s2 == Attr_suit(other)
        n1 == Card_name(self)
        n2 == Attr_name(other)
    IN  IF s1.kind = "raise" THEN s1
        ELSE IF s2.kind = "raise" THEN s2
        ELSE IF s1.val # s2.val THEN Return(FALSE)
        ELSE IF n1.kind = "raise" THEN n1
        ELSE IF n2.kind = "raise" THEN n2
        ELSE Return(n1.val = n2.val)

\* a == b for a card a: the __eq__ of a's class, except that the __eq__ of
\* b's class goes first when b's class is a subclass of a's that overrides it.
OperatorEq(a, b) ==
    IF a.type = "SchopskopfCard" THEN SchopskopfCard_eq(a, b)
    ELSE IF b.type = "SchopskopfCard" THEN SchopskopfCard_eq(b, a)
    ELSE Card_eq(a, b)

(***************************************************************************)
(* The program state: two variables that may each hold a card, the two     *)
(* class-wide flags, and the outcome of the last call.  flips counts the   *)
(* flip() calls made on the card each variable holds.                      *)
(***************************************************************************)
Slots == {"c1", "c2"}

\* Operands that are not cards.
NonCards == {"int", "str"}

\* The value an operand designator stands for.
Val(d) == IF d \in Slots THEN cards[d] ELSE [type |-> d]

Outcome(op, self, args, out) ==
    [op |-> op, self |-> self, args |-> args, out |-> out]

NoResult == Outcome("none", "none", << >>, Return(None))

Init ==
    /\ cards = [i \in Slots |-> None]
    /\ flips = [i \in Slots |-> 0]
    /\ useUnicode = TRUE
    /\ debugMode = FALSE
    /\ result = NoResult

\* i = cls(name, suit)
Construct(i, cls, name, suit) ==
    LET r == Card_init(cls, name, suit)
    IN  /\ ~IsCardObj(cards[i])
        /\ cards' = [cards EXCEPT ![i] = IF r.out.kind = "return" THEN r.obj ELSE @]
        /\ flips' = [flips EXCEPT ![i] = 0]
        /\ result' = Outcome("Card", i, <<cls, name, suit>>, r.out)
        /\ UNCHANGED <<useUnicode, debugMode>>

\* i.flip()
Flip(i) ==
    /\ IsCardObj(cards[i])
    /\ cards' = [cards EXCEPT ![i] = Card_flip(cards[i])]
    /\ result' = Outcome("flip", i, << >>, Return(i))
    /\ UNCHANGED <<useUnicode, debugMode>>

\* The count of flip() calls, kept up to MaxFlips.
CountFlip(i) ==
    /\ flips[i] < MaxFlips
    /\ flips' = [flips EXCEPT ![i] = @ + 1]

\* i.suit = newSuit
SetSuit(i, newSuit) ==
    LET r == Card_suit_setter(cards[i], newSuit)
    IN  /\ IsCardObj(cards[i])
        /\ cards' = [cards EXCEPT ![i] = r.obj]
        /\ result' = Outcome("suit=", i, <<newSuit>>, r.out)
        /\ UNCHANGED <<flips, useUnicode, debugMode>>

\* A call that reads i and changes nothing.
Query(op, i, args, out) ==
    /\ IsCardObj(cards[i])
    /\ result' = Outcome(op, i, args, out)
    /\ UNCHANGED <<cards, flips, useUnicode, debugMode>>

GetIsShowing(i)  == Query("isShowing", i, << >>, Return(Card_isShowing(cards[i])))
GetIsFacecard(i) == Query("isFacecard", i, << >>, Card_isFacecard(cards[i]))
GetIsAce(i)      == Query("isAce", i, << >>, Card_isAce(cards[i]))
GetHardValue(i)  == Query("hardValue", i, << >>, Card_hardValue(cards[i]))
GetSoftValue(i)  == Query("softValue", i, << >>, Card_softValue(cards[i]))
GetSuit(i)       == Query("suit", i, << >>, Card_suit(cards[i]))
GetName(i)       == Query("name", i, << >>, Card_name(cards[i]))
GetRank(i)       == Query("rank", i, << >>, Card_rank(cards[i]))
Str(i)           == Query("str", i, << >>, Card_str(cards[i]))

\* The right operand of a comparison: a card held by a variable, or a value
\* that is not a card.
IsOperand(d) == d \in NonCards \/ (d \in Slots /\ IsCardObj(cards[d]))

SameSuit(i, d) == IsOperand(d) /\ Query("sameSuit", i, <<d>>, Card_sameSuit(cards[i], Val(d)))
SameRank(i, d) == IsOperand(d) /\ Query("sameRank", i, <<d>>, Card_sameRank(cards[i], Val(d)))
Eq(i, d)       == IsOperand(d) /\ Query("==", i, <<d>>, OperatorEq(cards[i], Val(d)))
Lt(i, d)       == IsOperand(d) /\ Query("<", i, <<d>>, Card_lt(cards[i], Val(d)))

\* Card.debugMode = b
SetDebugMode(b) ==
    /\ debugMode' = b
    /\ result' = Outcome("debugMode=", "none", <<b>>, Return(None))
    /\ UNCHANGED <<cards, flips, useUnicode>>

\* Card.useUnicode = b
SetUseUnicode(b) ==
    /\ useUnicode' = b
    /\ result' = Outcome("useUnicode=", "none", <<b>>, Return(None))
    /\ UNCHANGED <<cards, flips, debugMode>>

(***************************************************************************)
(* Inputs                                                                  *)
(***************************************************************************)
Range(seq) == {seq[i] : i \in 1..Len(seq)}

\* Every way of writing s in upper and lower case letters.
RECURSIVE CaseVariants(_)
CaseVariants(s) ==
    IF Len(s) = 0 THEN {<< >>}
    ELSE {<<c>> \o t : c \in {lowerCh(Head(s)), upperCh(Head(s))},
                       t \in CaseVariants(Tail(s))}

\* Strings that are no card name in any case.
BadNames ==
    { << >>, <<"1">>, <<"0">>, <<"1","1">>, <<"a","c">>, <<"a","c","e","s">>,
      <<"a","c","e"," ">>, <<"o","n","e">>, <<"j","o","k","e","r">>,
      <<"j","k">>, <<"T">>, <<"1","0","0">>, <<"s","p","a","d","e","s">> }

\* Strings that are no suit in any case.
BadSuits ==
    { << >>, <<"s","p","a","d","e">>, <<"s","t","a","r","s">>,
      <<"c","l","u","b","s"," ">>, <<"u2660">>, <<"S">>, <<"a","c","e">> }

\* Constructor arguments of the card life cycle.
NameArgs == Range(names) \cup { <<"A">>, <<"k">>, <<"Q","u","e","e","n">>, <<"j","o","k","e","r">> }
SuitArgs == Range(suits) \cup { <<"S","p","a","d","e","s">>, <<"s","t","a","r","s">> }

\* Constructor arguments of the constructor's own check: every case variant
\* of every name, short name and suit, and the strings that are none.
AllNameArgs ==
    UNION {CaseVariants(n) : n \in Range(names) \cup Range(shortNames)} \cup BadNames
AllSuitArgs == UNION {CaseVariants(s) : s \in Range(suits)} \cup BadSuits

\* Arguments of the suit setter.
NewSuitArgs ==
    Range(suits) \cup { <<"S","p","a","d","e","s">>, <<"C","L","U","B","S">>,
                        <<"s","t","a","r","s">>, << >> }

(***************************************************************************)
(* Specifications                                                          *)
(***************************************************************************)
\* One card of either class through its life: construction, flips, suit
\* assignments, accessors, rendering, and the two flags.
Next ==
    \/ \E cls \in CardTypes, n \in NameArgs, s \in SuitArgs : Construct("c1", cls, n, s)
    \/ Flip("c1") /\ CountFlip("c1")
    \/ \E s \in NewSuitArgs : SetSuit("c1", s)
    \/ GetIsShowing("c1")
    \/ GetIsFacecard("c1")
    \/ GetIsAce("c1")
    \/ GetHardValue("c1")
    \/ GetSoftValue("c1")
    \/ GetSuit("c1")
    \/ GetName("c1")
    \/ GetRank("c1")
    \/ Str("c1")
    \/ \E b \in BOOLEAN : SetDebugMode(b)
    \/ \E b \in BOOLEAN : SetUseUnicode(b)

Spec == Init /\ [][Next]_vars

\* Two cards of class Card, flipped freely, and the comparisons of the first
\* with itself, with the second and with values that are not cards.
NextCmp ==
    \/ \E i \in Slots, n \in Range(names), s \in Range(suits) : Construct(i, "Card", n, s)
    \/ \E i \in Slots : Flip(i) /\ UNCHANGED flips
    \/ \E d \in Slots \cup NonCards : SameSuit("c1", d)
    \/ \E d \in Slots \cup NonCards : SameRank("c1", d)
    \/ \E d \in Slots \cup NonCards : Eq("c1", d)
    \/ \E d \in Slots \cup NonCards : Lt("c1", d)

SpecCmp == Init /\ [][NextCmp]_vars

\* Two cards of class SchopskopfCard and their equality, with debug mode on
\* or off.
NextSchopskopf ==
    \/ \E i \in Slots, n \in Range(names), s \in Range(suits) : Construct(i, "SchopskopfCard", n, s)
    \/ \E i \in Slots : Flip(i) /\ UNCHANGED flips
    \/ \E d \in Slots \cup NonCards : Eq("c1", d)
    \/ \E b \in BOOLEAN : SetDebugMode(b)

SpecSchopskopf == Init /\ [][NextSchopskopf]_vars

\* One construction of a Card from any of the constructor arguments.
NextInit ==
    /\ result = NoResult
    /\ \E n \in AllNameArgs, s \in AllSuitArgs : Construct("c1", "Card", n, s)

SpecInit == Init /\ [][NextInit]_vars

(***************************************************************************)
(* What the claims expect, written out independently of the class tables   *)
(***************************************************************************)
Clubs    == <<"c","l","u","b","s">>
Spades   == <<"s","p","a","d","e","s">>
Hearts   == <<"h","e","a","r","t","s">>
Diamonds == <<"d","i","a","m","o","n","d","s">>

CanonicalSuits == {Clubs, Spades, Hearts, Diamonds}

Constructed(i) == IsCardObj(cards[i])

RaisedRuleError(out) == out.kind = "raise" /\ out.exc = "RuleError"

Returned(out, v) == out.kind = "return" /\ out.val = v

GatedOps == {"name", "suit", "rank", "hardValue", "softValue", "isFacecard", "isAce"}

\* The field of card c that the accessor named op exposes.
Stored(c, op) == c[op]

(***************************************************************************)
(* C1                                                                      *)
(***************************************************************************)
\* C1 as stated: a gated accessor raises CardNotShowing if and only if the
\* card is face down and debug mode is off; otherwise (card showing, or
\* debug mode on) it returns the stored value.
C1_GateHonoursDebugMode ==
    result.op \in GatedOps =>
        LET c == cards[result.self]
        IN  IF ~c.isShowing /\ ~debugMode
            THEN RaisedRuleError(result.out)
            ELSE Returned(result.out, Stored(c, result.op))

\* C1 as amended: a gated accessor raises CardNotShowing if and only if the
\* card is face down, whether debug mode is on or off; when the card is
\* showing it returns the stored value.
C1_GateIgnoresDebugMode ==
    result.op \in GatedOps =>
        LET c == cards[result.self]
        IN  IF ~c.isShowing
            THEN RaisedRuleError(result.out)
            ELSE Returned(result.out, Stored(c, result.op))

\* A gated accessor has raised on a face-down card while debug mode is on.
C1_Witness ==
    /\ result.op \in GatedOps
    /\ debugMode
    /\ ~cards[result.self].isShowing
    /\ RaisedRuleError(result.out)

(***************************************************************************)
(* C5                                                                      *)
(***************************************************************************)
\* C5: the suit setter, face up or face down, accepts exactly the 4
\* canonical suits and then changes the suit and nothing else; for any other
\* value it raises the invalid-argument error (ValueError) and changes
\* nothing.  The suit of a card is always canonical, and it changes only by
\* a successful assignment, to the value assigned.
C5_SuitSetter ==
    /\ [](\A i \in Slots : Constructed(i) => cards[i].suit \in CanonicalSuits)
    /\ [][ /\ result'.op = "suit=" =>
                LET i == result'.self
                    s == result'.args[1]
                IN  IF s \in CanonicalSuits
                    THEN /\ Returned(result'.out, None)
                         /\ cards' = [cards EXCEPT ![i] = [cards[i] EXCEPT !.suit = s]]
                    ELSE /\ result'.out.kind = "raise"
                         /\ result'.out.exc = "ValueError"
                         /\ cards' = cards
           /\ \A i \in Slots :
                (Constructed(i) /\ cards'[i].suit # cards[i].suit) =>
                    /\ result'.op = "suit="
                    /\ result'.self = i
                    /\ result'.out.kind = "return"
                    /\ result'.args[1] = cards'[i].suit
         ]_vars

\* A suit has been assigned to a face-down card.
C5_Witness ==
    /\ result.op = "suit="
    /\ result.out.kind = "return"
    /\ result.args[1] = Clubs
    /\ cards[result.self].suit = Clubs
    /\ ~cards[result.self].isShowing

(***************************************************************************)
(* C7                                                                      *)
(***************************************************************************)
\* C7: a new card is face down; flip() never fails, negates isShowing and
\* leaves every other attribute unchanged; two flips give back the same
\* card; isShowing is true iff the number of flip() calls so far is odd,
\* and no other call changes it.
C7_FlipToggles ==
    /\ [](\A i \in Slots : Constructed(i) =>
            /\ cards[i].isShowing <=> (flips[i] % 2 = 1)
            /\ Card_flip(Card_flip(cards[i])) = cards[i])
    /\ [][ /\ (result'.op = "Card" /\ result'.out.kind = "return") =>
                ~cards'[result'.self].isShowing
           /\ result'.op = "flip" =>
                /\ result'.out.kind = "return"
                /\ cards' = [cards EXCEPT ![result'.self] =
                                [cards[result'.self] EXCEPT !.isShowing = ~@]]
           /\ result'.op \notin {"flip", "Card"} =>
                \A i \in Slots : Constructed(i) =>
                    cards'[i].isShowing = cards[i].isShowing
         ]_vars

\* A card has been flipped twice and is face down again.
C7_Witness ==
    /\ result.op = "flip"
    /\ flips[result.self] = 2
    /\ ~cards[result.self].isShowing

(***************************************************************************)
(* C10                                                                     *)
(***************************************************************************)
ShortText(name) ==
    CASE name = <<"a","c","e">>         -> <<"A">>
      [] name = <<"j","a","c","k">>     -> <<"J">>
      [] name = <<"q","u","e","e","n">> -> <<"Q">>
      [] name = <<"k","i","n","g">>     -> <<"K">>
      [] OTHER                          -> name

LongText(name) ==
    CASE name = <<"a","c","e">>         -> <<"A","c","e">>
      [] name = <<"j","a","c","k">>     -> <<"J","a","c","k">>
      [] name = <<"q","u","e","e","n">> -> <<"Q","u","e","e","n">>
      [] name = <<"k","i","n","g">>     -> <<"K","i","n","g">>
      [] OTHER                          -> name

SuitText(suit) ==
    CASE suit = Clubs    -> <<"C","l","u","b","s">>
      [] suit = Spades   -> <<"S","p","a","d","e","s">>
      [] suit = Hearts   -> <<"H","e","a","r","t","s">>
      [] suit = Diamonds -> <<"D","i","a","m","o","n","d","s">>

SuitGlyph(suit) ==
    CASE suit = Clubs    -> <<"u2663">>
      [] suit = Spades   -> <<"u2660">>
      [] suit = Hearts   -> <<"u2661">>
      [] suit = Diamonds -> <<"u2662">>

GatedComparisons == {"sameRank", "sameSuit", "=="}

\* The boolean a gated comparison is about.
Equality(op, a, b) ==
    CASE op = "sameRank" -> a.rank = b.rank
      [] op = "sameSuit" -> a.suit = b.suit
      [] op = "=="       -> a.rank = b.rank /\ a.suit = b.suit

\* The last call compared card c1 with a card.
ComparedCards == result.args # << >> /\ result.args[1] \in Slots

\* C2 as stated: with debug mode off, sameRank, sameSuit and == on two cards
\* raise CardNotShowing only when both are face down; when at least one of
\* them is face up they raise nothing and return the equality of rank,
\* respectively suit.
C2_RaisesOnlyWhenBothFaceDown ==
    (result.op \in GatedComparisons /\ ComparedCards /\ ~debugMode) =>
        LET a == cards[result.self]
            b == cards[result.args[1]]
        IN  IF ~a.isShowing /\ ~b.isShowing
            THEN RaisedRuleError(result.out)
            ELSE Returned(result.out, Equality(result.op, a, b))

\* C3: for two showing cards, == is true iff rank and suit are equal
\* (equivalently name and suit), sameRank iff the ranks are equal, sameSuit
\* iff the suits are equal, and none of the three raises.
C3_EqualityWhenShowing ==
    (result.op \in GatedComparisons /\ ComparedCards) =>
        LET a == cards[result.self]
            b == cards[result.args[1]]
        IN  (a.isShowing /\ b.isShowing) =>
                /\ Returned(result.out, Equality(result.op, a, b))
                /\ (a.rank = b.rank) <=> (a.name = b.name)

\* Two showing cards of the same rank and different suits have compared
\* unequal.
C3_Witness ==
    /\ result.op = "=="
    /\ result.args = <<"c2">>
    /\ cards["c1"].isShowing /\ cards["c2"].isShowing
    /\ cards["c1"].name = cards["c2"].name
    /\ cards["c1"].suit # cards["c2"].suit
    /\ Returned(result.out, FALSE)

\* C8: sameRank, sameSuit and == on a Card raise the type-mismatch error
\* (TypeError) when the other operand is not a card, face up or face down,
\* and never return a boolean.
C8_TypeMismatch ==
    (result.op \in GatedComparisons /\ result.args # << >> /\ result.args[1] \in NonCards) =>
        /\ result.out.kind = "raise"
        /\ result.out.exc = "TypeError"

\* A face-down card has been compared by == with a value that is no card.
C8_Witness ==
    /\ result.op = "=="
    /\ result.args = <<"int">>
    /\ ~cards["c1"].isShowing
    /\ result.out.kind = "raise"
    /\ result.out.exc = "TypeError"

\* C9: a < b on two cards never raises, in any visibility state and for any
\* suits, and is true iff rank(a) < rank(b); 2 < 3 in particular.
C9_OrderingUngated ==
    (result.op = "<" /\ ComparedCards) =>
        LET a == cards[result.self]
            b == cards[result.args[1]]
        IN  /\ Returned(result.out, a.rank < b.rank)
            /\ (a.name = <<"2">> /\ b.name = <<"3">>) => Returned(result.out, TRUE)

\* A face-down 2 has compared less than a face-down 3 of another suit.
C9_Witness ==
    /\ result.op = "<"
    /\ result.args = <<"c2">>
    /\ ~cards["c1"].isShowing /\ ~cards["c2"].isShowing
    /\ cards["c1"].name = <<"2">> /\ cards["c2"].name = <<"3">>
    /\ cards["c1"].suit # cards["c2"].suit
    /\ Returned(result.out, TRUE)

(***************************************************************************)
(* C4: equality of two SchopskopfCards                                     *)
(***************************************************************************)
\* C4 as stated: a == b on two SchopskopfCards never raises CardNotShowing,
\* in any visibility state, and returns exactly (suits equal and names
\* equal).
C4_EqualityBypassesGate ==
    (result.op = "==" /\ ComparedCards) =>
        LET a == cards[result.self]
            b == cards[result.args[1]]
        IN  Returned(result.out, a.suit = b.suit /\ a.name = b.name)

\* C4 as amended: a == b on two SchopskopfCards raises CardNotShowing when
\* at least one of them is face down; when both are showing it raises
\* nothing and returns exactly (suits equal and names equal).
C4_EqualityIsGated ==
    (result.op = "==" /\ ComparedCards) =>
        LET a == cards[result.self]
            b == cards[result.args[1]]
        IN  IF a.isShowing /\ b.isShowing
            THEN Returned(result.out, a.suit = b.suit /\ a.name = b.name)
            ELSE RaisedRuleError(result.out)

\* A showing SchopskopfCard has been compared with a face-down one.
C4_Witness ==
    /\ result.op = "=="
    /\ result.args = <<"c2">>
    /\ cards["c1"].type = "SchopskopfCard" /\ cards["c2"].type = "SchopskopfCard"
    /\ cards["c1"].isShowing /\ ~cards["c2"].isShowing
    /\ RaisedRuleError(result.out)

(***************************************************************************)
(* C6: construction                                                        *)
(***************************************************************************)
\* The same letter, in either case.
SameLetter(c, d) ==
    \/ c = d
    \/ \E k \in LetterIx : {c, d} = {LowerLetters[k], UpperLetters[k]}

\* s and t are equal up to the case of their letters.
EqIgnoreCase(s, t) ==
    /\ Len(s) = Len(t)
    /\ \A i \in 1..Len(s) : SameLetter(s[i], t[i])

CanonicalNames ==
    << <<"a","c","e">>, <<"2">>, <<"3">>, <<"4">>, <<"5">>, <<"6">>, <<"7">>,
       <<"8">>, <<"9">>, <<"1","0">>,
       <<"j","a","c","k">>, <<"q","u","e","e","n">>, <<"k","i","n","g">> >>

CanonicalShortForms ==
    << <<"A">>, <<"2">>, <<"3">>, <<"4">>, <<"5">>, <<"6">>, <<"7">>,
       <<"8">>, <<"9">>, <<"1","0">>, <<"J">>, <<"Q">>, <<"K">> >>

\* The positions (1..13) of the canonical names that the argument matches.
NameMatches(n) ==
    {k \in 1..13 : EqIgnoreCase(n, CanonicalNames[k]) \/ EqIgnoreCase(n, CanonicalShortForms[k])}

SuitMatches(s) == {c \in CanonicalSuits : EqIgnoreCase(s, c)}

\* The derived state of the card whose name is the k-th canonical name.
DerivedOk(c, k) ==
    /\ c.name = CanonicalNames[k]
    /\ c.shortName = CanonicalShortForms[k]
    /\ c.rank = k
    /\ c.hardValue = (IF k > 10 THEN 10 ELSE k)
    /\ c.softValue = (IF k = 1 THEN 11 ELSE IF k > 10 THEN 10 ELSE k)
    /\ c.isFacecard = (k \in 11..13)
    /\ c.isAce = (k = 1)

\* C6: Card(name, suit) succeeds iff name matches a canonical name or short
\* form and suit matches a canonical suit, case-insensitively; otherwise it
\* fails with the invalid-argument error (TypeError), an invalid name being
\* reported first.  On success the name is the canonical long name, the
\* suit is lower case and the derived state is that of the name.
C6_Construction ==
    result.op = "Card" =>
        LET n  == result.args[2]
            s  == result.args[3]
            ks == NameMatches(n)
            ss == SuitMatches(s)
        IN  /\ (result.out.kind = "return") <=> (ks # {} /\ ss # {})
            /\ ks = {} => result.out = Raise("TypeError", "is not a valid card name")
            /\ (ks # {} /\ ss = {}) =>
                   result.out = Raise("TypeError", "is not a valid card suit")
            /\ (ks # {} /\ ss # {}) =>
                   /\ Constructed(result.self)
                   /\ \A k \in ks : DerivedOk(cards[result.self], k)
                   /\ \A c \in ss : cards[result.self].suit = c

\* A queen of hearts has been constructed from "q" and "HeArTs".
C6_Witness ==
    /\ result.op = "Card"
    /\ result.args[2] = <<"q">>
    /\ result.args[3] = <<"H","e","A","r","T","s">>
    /\ result.out.kind = "return"
    /\ cards[result.self].name = <<"q","u","e","e","n">>
    /\ cards[result.self].rank = 12
    /\ cards[result.self].suit = Hearts

====
